---- MODULE Spec2Model ----
(***************************************************************************)
(* A model of bot.py: the Telegram daily-practice bot.                     *)
(*                                                                         *)
(* Two threads run: the dispatcher thread, which runs one handler at a     *)
(* time (start, help_cmd, daily_cmd, check_answer, score_cmd, level_cmd,   *)
(* streak_cmd), and the scheduler thread, which runs send_daily_to_all.    *)
(* They share the user table of the `database` module.  The handlers that  *)
(* make several database calls are split at those calls, so that the       *)
(* scheduler thread can run between any two of them.                       *)
(*                                                                         *)
(* A message comes from a user in a chat.  The handlers key the user table *)
(* by update.effective_chat.id, while context.user_data is the dictionary  *)
(* the framework keeps per effective user.                                 *)
(***************************************************************************)
EXTENDS Integers, Sequences, FiniteSets, TLC

(***************************************************************************)
(* Bounds of the model.                                                    *)
(***************************************************************************)
\* the points the replies of a behaviour earn in all
MaxScore == 2
\* the days a behaviour lasts after the first
MaxDay == 1

(***************************************************************************)
(* Users, chats.  A user's private chat has the user's id; a group chat    *)
(* has an id of its own.                                                   *)
(***************************************************************************)
Users == {"u1"}
GroupChats == {"g"}
Chats == Users \cup GroupChats
ChatsOf(u) == {u} \cup GroupChats

Levels == {"Beginner", "Intermediate", "Advanced"}

\* Python's None, as a stored answer or id that the item does not have.
None == <<"None">>

(***************************************************************************)
(* Text.  A text is a sequence of one-character strings.                   *)
(***************************************************************************)
\* str.lower on one character, over the letters the model uses
LowerChar(ch) ==
    CASE ch = "A" -> "a"
      [] ch = "B" -> "b"
      [] ch = "N" -> "n"
      [] OTHER -> ch

\* str.lower
Lower(s) == [i \in 1..Len(s) |-> LowerChar(s[i])]

RECURSIVE LStrip(_)
LStrip(s) == IF s # <<>> /\ Head(s) = " " THEN LStrip(Tail(s)) ELSE s

RECURSIVE RStrip(_)
RStrip(s) ==
    IF s # <<>> /\ s[Len(s)] = " " THEN RStrip(SubSeq(s, 1, Len(s) - 1)) ELSE s

\* str.strip
Strip(s) == RStrip(LStrip(s))

\* the first index at which "||" starts in s, or 0
RECURSIVE FindSep(_, _)
FindSep(s, i) ==
    IF i + 1 > Len(s) THEN 0
    ELSE IF s[i] = "|" /\ s[i + 1] = "|" THEN i
    ELSE FindSep(s, i + 1)

\* str.split('||')
RECURSIVE Split(_)
Split(s) ==
    LET i == FindSep(s, 1) IN
    IF i = 0 THEN <<s>>
    ELSE <<SubSeq(s, 1, i - 1)>> \o Split(SubSeq(s, i + 2, Len(s)))

\* str() of a stored answer: str(None) is 'None'
Str(a) == IF a = None THEN <<"N", "o", "n", "e">> ELSE a

(***************************************************************************)
(* Content.  An item is a record; 'level', 'answer' and 'id' are optional  *)
(* fields.  The four collections are read once at import and never change. *)
(***************************************************************************)
\* a content directory whose four files hold items of every kind
FullContent ==
    [grammar |-> << [q |-> "g1", id |-> <<"g1">>, level |-> "Beginner", answer |-> <<"B">>],
                    [q |-> "g2", id |-> <<"g2">>, level |-> "Intermediate", answer |-> <<"A">>],
                    [q |-> "g3", level |-> "Advanced"] >>,
     vocab   |-> << [word |-> "v1", level |-> "Beginner"] >>,
     puzzles |-> << [q |-> "p1", id |-> <<"p1">>, answer |-> <<"a", "b">>] >>,
     lessons |-> << [text |-> "l1"] >>]

\* a content directory whose puzzles.json holds the empty list
NoPuzzles == [FullContent EXCEPT !.puzzles = <<>>]

\* the content directories the program may be started in, and what
\* load_json reads from the four files of each
ContentDirs == {"full", "no_puzzles"}
Loaded == [d \in ContentDirs |-> IF d = "full" THEN FullContent ELSE NoPuzzles]

\* dict.get(key): the value, or None
Get(d, key) == IF key \in DOMAIN d THEN d[key] ELSE None

\* the four files in the order lines 24-27 load them, and the global each
\* is bound to
FileNames == <<"grammar.json", "vocabulary.json", "puzzles.json", "lessons.json">>
FileGlobal ==
    [f \in {FileNames[k] : k \in 1..Len(FileNames)} |->
        CASE f = "grammar.json" -> "grammar"
          [] f = "vocabulary.json" -> "vocab"
          [] f = "puzzles.json" -> "puzzles"
          [] f = "lessons.json" -> "lessons"]

\* what a content file may be: a JSON list of items, the JSON empty list,
\* text that is no JSON, or no file at all
FileStates == {"list", "empty", "malformed", "missing"}

\* the files of a content directory of ContentDirs
FilesOf(d) ==
    [f \in DOMAIN FileGlobal |-> IF Loaded[d][FileGlobal[f]] = <<>> THEN "empty" ELSE "list"]

\* the globals bound once lines 24-27 have run in a directory of ContentDirs
GlobalsOf(d) == [f \in DOMAIN FileGlobal |-> Loaded[d][FileGlobal[f]]]

\* choose_for_level with the fallback to the whole collection left out
choose_for_level_nofallback(items, level) ==
    LET filtered == SelectSeq(items, LAMBDA i : ("level" \notin DOMAIN i) \/ (i.level = level))
    IN  {filtered[k] : k \in 1..Len(filtered)}

\* choose_for_level without the filter
choose_for_level_nofilter(items, level) == {items[k] : k \in 1..Len(items)}

\* choose_for_level(items, level): the items random.choice may return; the
\* empty set when random.choice raises IndexError on an empty list
choose_for_level(items, level) ==
    LET filtered == SelectSeq(items, LAMBDA i : ("level" \notin DOMAIN i) \/ (i.level = level))
        pool == IF filtered = <<>> THEN items ELSE filtered
    IN  {pool[k] : k \in 1..Len(pool)}

(***************************************************************************)
(* The `database` module, which bot.py imports: one row per user id, with  *)
(* level, score, streak and last-active day (the display name is never     *)
(* read by bot.py and is left out).  A table is a function from the ids    *)
(* that have a row to their rows.                                          *)
(***************************************************************************)
IntermediateScore == 1
AdvancedScore == 2

\* the level the score thresholds give
LevelForScore(score) ==
    IF score >= AdvancedScore THEN "Advanced"
    ELSE IF score >= IntermediateScore THEN "Intermediate"
    ELSE "Beginner"

NewRow == [level |-> "Beginner", score |-> 0, streak |-> 0, last_active |-> <<>>]

\* database.get_user(uid): <<row>>, or <<>> for None
get_user(t, uid) == IF uid \in DOMAIN t THEN <<t[uid]>> ELSE <<>>

\* database.add_user(uid, name): insert on first contact, else nothing
add_user(t, uid) ==
    IF uid \in DOMAIN t THEN t
    ELSE [x \in DOMAIN t \cup {uid} |-> IF x = uid THEN NewRow ELSE t[x]]

\* database.increment_score(uid, n)
increment_score(t, uid, n) ==
    IF uid \in DOMAIN t THEN [t EXCEPT ![uid].score = @ + n] ELSE t

\* database.set_level_by_score(uid)
set_level_by_score(t, uid) ==
    IF uid \in DOMAIN t THEN [t EXCEPT ![uid].level = LevelForScore(t[uid].score)] ELSE t

\* the streak update_last_active_and_streak returns and stores
NewStreak(t, uid, day) ==
    IF uid \notin DOMAIN t THEN 0
    ELSE IF t[uid].last_active = <<day - 1>> THEN t[uid].streak + 1
    ELSE 1

\* database.update_last_active_and_streak(uid)
update_last_active_and_streak(t, uid, day) ==
    IF uid \in DOMAIN t
    THEN [t EXCEPT ![uid].streak = NewStreak(t, uid, day), ![uid].last_active = <<day>>]
    ELSE t

(***************************************************************************)
(* The quiz payload.                                                       *)
(***************************************************************************)
\* lines 40-64 of format_daily_payload: the payloads it may return for a
\* level: the text (here the four pieces of content it shows), the answers
\* and the ids of the chosen grammar item and puzzle; the empty set when it
\* raises because one of the four random.choice calls has nothing to choose
payload_for_level(c, lvl) ==
    {[text |-> <<g.q, v.word, p.q, l.text>>,
      answers |-> [grammar |-> Get(g, "answer"), puzzle |-> Get(p, "answer")],
      ids |-> [grammar_id |-> Get(g, "id"), puzzle_id |-> Get(p, "id")]] :
        g \in choose_for_level(c.grammar, lvl), v \in choose_for_level(c.vocab, lvl),
        p \in choose_for_level(c.puzzles, lvl), l \in choose_for_level(c.lessons, lvl)}

\* the payloads of each content directory and level
PayloadsOf == [d \in ContentDirs |-> [lvl \in Levels |-> payload_for_level(Loaded[d], lvl)]]

\* format_daily_payload without lines 38-39: the level is always the default
format_daily_payload_default(c, t, uid) == PayloadsOf[c]["Beginner"]

\* format_daily_payload(uid)
format_daily_payload(c, t, uid) ==
    LET user == get_user(t, uid)
        lvl == IF user # <<>> THEN user[1].level ELSE "Beginner"
    IN  PayloadsOf[c][lvl]

(***************************************************************************)
(* The replies users send: free text.                                      *)
(***************************************************************************)
ReplyTexts ==
    { <<"b", " ", "|", "|", "A", "B", " ">>,
      <<"A", "|", "|", "b">>,
      <<"N", "o", "n", "e", "|", "|", "a", "b">>,
      <<"B", "|", "|", "a", "b", "|", "|", "x">>,
      <<"B", "|", "a", "b">> }

\* the parts of a reply, lines 97 and 101
Parts(text) == LET parts == Split(Strip(text)) IN [i \in 1..Len(parts) |-> Strip(parts[i])]

\* the parts of each reply
PartsOf == [text \in ReplyTexts |-> Parts(text)]

\* lines 110 and 112: one part of the reply against the stored answer
Matches(ans, stored) == Lower(ans) = Lower(Str(stored))

\* lines 109-113: the points a reply gains
gained(grammar_ans, puzzle_ans, correct) ==
    (IF Matches(grammar_ans, correct.grammar) THEN 1 ELSE 0)
    + (IF Matches(puzzle_ans, correct.puzzle) THEN 1 ELSE 0)

(***************************************************************************)
(* State.                                                                  *)
(***************************************************************************)
VARIABLES
    content,     \* the four collections read at import, by the directory they were read from
    db,          \* the users table
    user_data,   \* context.user_data of each user: a dictionary
    today,       \* the current day
    hpc,         \* where the dispatcher thread is: "idle", or a line of check_answer
    h,           \* the locals of the running check_answer
    out,         \* what the handler now running or last run has answered: to
                 \* whom, the message sent or the exception raised ("-": nothing
                 \* yet), the content shown when the message is a quiz, and
                 \* <<the ids of the quiz that was pending when that quiz came>>
    bpc,         \* where the scheduler thread is: "idle" or in the loop of send_daily_to_all
    users,       \* send_daily_to_all: the enumerated user ids the for loop has yet to take
    bres,        \* send_daily_to_all: what became of each user id
    battempts,   \* send_daily_to_all: the iterations run for each user id
    bsent,       \* send_daily_to_all: the content shown by the message the last
                 \* iteration sent, <<>> when it sent none
    asked,       \* the users who have sent /daily
    items,       \* choose_for_level alone: its first argument
    level,       \* choose_for_level alone: its second argument
    chosen,      \* choose_for_level alone: what it returned or raised
    token,       \* the comparison alone: a part of a reply as the user typed it
    stored,      \* the comparison alone: the stored answer, or None
    matched,     \* the comparison alone: "-", or whether the part scored
    files,       \* startup alone: the state of each of the four content files
    loaded,      \* startup alone: the collections bound so far
    spc          \* startup alone: the file being loaded, "main", "running" or "crashed"

schedvars == <<bpc, users, bres, battempts, bsent>>
purevars == <<items, level, chosen>>
matchvars == <<token, stored, matched>>
startvars == <<files, loaded, spc>>
vars == <<content, db, user_data, today, hpc, h, out, schedvars, asked, purevars, matchvars, startvars>>

\* a handler's answer
Said(u, msg) == [user |-> u, msg |-> msg, quiz |-> <<>>, over |-> <<>>]

EmptyDict == [x \in {} |-> None]
NoLocals == [user |-> "-", uid |-> "-", correct |-> <<>>, gained |-> 0, before |-> <<>>]
NoRun == [c \in Chats |-> "-"]
NoAttempts == [c \in Chats |-> 0]
NoChoice == [status |-> "-", item |-> [q |-> "-"]]

\* no comparison is made on its own
NoComparison == token = <<>> /\ stored = None /\ matched = "-"

\* the program has started in directory d
Started(d) == files = FilesOf(d) /\ loaded = GlobalsOf(d) /\ spc = "running"

Init ==
    /\ content \in ContentDirs
    /\ db = EmptyDict
    /\ user_data = [u \in Users |-> EmptyDict]
    /\ today = 0
    /\ hpc = "idle"
    /\ h = NoLocals
    /\ out = Said("-", "-")
    /\ bpc = "idle"
    /\ users = <<>>
    /\ bres = NoRun
    /\ battempts = NoAttempts
    /\ bsent = <<>>
    /\ asked = {}
    /\ items = <<>>
    /\ level = "Beginner"
    /\ chosen = NoChoice
    /\ NoComparison
    /\ Started(content)

\* the clock: midnight
NextDay ==
    /\ today < MaxDay
    /\ today' = today + 1
    /\ UNCHANGED <<content, db, user_data, hpc, h, out, schedvars, asked, purevars, matchvars, startvars>>

(***************************************************************************)
(* The handlers.  The dispatcher thread runs one at a time.                *)
(***************************************************************************)
\* /start with an INSERT OR REPLACE behind it
start_reset(u, c) ==
    /\ hpc = "idle"
    /\ c \in ChatsOf(u)
    /\ db' = [x \in DOMAIN db \cup {c} |-> IF x = c THEN NewRow ELSE db[x]]
    /\ out' = Said(u, "welcome")
    /\ UNCHANGED <<content, user_data, today, hpc, h, schedvars, asked, purevars, matchvars, startvars>>

\* /start
start(u, c) ==
    /\ hpc = "idle"
    /\ c \in ChatsOf(u)
    /\ db' = add_user(db, c)
    /\ out' = Said(u, "welcome")
    /\ UNCHANGED <<content, user_data, today, hpc, h, schedvars, asked, purevars, matchvars, startvars>>

\* /help
help_cmd(u, c) ==
    /\ hpc = "idle"
    /\ c \in ChatsOf(u)
    /\ out' = Said(u, "commands")
    /\ UNCHANGED <<content, db, user_data, today, hpc, h, schedvars, asked, purevars, matchvars, startvars>>

\* whether a quiz is pending, line 98
has_pending(d) == "pending_answers" \in DOMAIN d

\* lines 91-92 as setdefault: a pending quiz is kept
store_pending_setdefault(d, payload) ==
    [k \in DOMAIN d \cup {"pending_answers", "pending_ids"} |->
        IF k \in DOMAIN d THEN d[k]
        ELSE IF k = "pending_answers" THEN payload.answers
        ELSE payload.ids]

\* the dictionary after lines 91-92
store_pending(d, payload) ==
    [k \in DOMAIN d \cup {"pending_answers", "pending_ids"} |->
        IF k = "pending_answers" THEN payload.answers
        ELSE IF k = "pending_ids" THEN payload.ids
        ELSE d[k]]

\* /daily
daily_cmd(u, c) ==
    /\ hpc = "idle"
    /\ c \in ChatsOf(u)
    /\ db' = add_user(db, c)
    /\ asked' = asked \cup {u}
    /\ LET payloads == format_daily_payload(content, db', c) IN
       IF payloads = {}
       THEN /\ out' = Said(u, "IndexError")
            /\ UNCHANGED user_data
       ELSE \E payload \in payloads :
            /\ user_data' = [user_data EXCEPT ![u] = store_pending(@, payload)]
            /\ out' = [Said(u, "quiz") EXCEPT !.quiz = payload.text,
                                              !.over = IF has_pending(user_data[u])
                                                       THEN <<user_data[u]["pending_ids"]>>
                                                       ELSE <<>>]
    /\ UNCHANGED <<content, today, hpc, h, schedvars, purevars, matchvars, startvars>>

\* the points all rows of a table hold
RECURSIVE TotalScore(_)
TotalScore(t) ==
    IF DOMAIN t = {} THEN 0
    ELSE LET c == CHOOSE x \in DOMAIN t : TRUE
         IN  t[c].score + TotalScore([x \in DOMAIN t \ {c} |-> t[x]])

\* the score of uid as a handler finds it: <<score>>, or <<>> without a row
ScoreOf(t, uid) == IF uid \in DOMAIN t THEN <<t[uid].score>> ELSE <<>>

\* lines 98-100 with the day's activity recorded before the test
no_active_quiz_active(u, c) ==
    /\ out' = Said(u, "no_active_quiz")
    /\ db' = update_last_active_and_streak(db, c, today)
    /\ UNCHANGED <<user_data, hpc, h>>

\* check_answer, lines 98-100: no quiz is pending
no_active_quiz(u, c) ==
    /\ out' = Said(u, "no_active_quiz")
    /\ UNCHANGED <<db, user_data, hpc, h>>

\* the dictionary after lines 122-123
clear_pending(d) == [k \in DOMAIN d \ {"pending_answers", "pending_ids"} |-> d[k]]

\* lines 102-104 with the quiz dropped
format_wrong_clear(u, c) ==
    /\ out' = Said(u, "format_wrong")
    /\ user_data' = [user_data EXCEPT ![u] = clear_pending(@)]
    /\ UNCHANGED <<db, hpc, h>>

\* check_answer, lines 102-104: the reply has no separator
format_wrong(u, c) ==
    /\ out' = Said(u, "format_wrong")
    /\ UNCHANGED <<db, user_data, hpc, h>>

\* check_answer, lines 105-114: the reply is scored against the pending answers
tally(u, c, parts) ==
    LET correct == user_data[u]["pending_answers"]
        n == gained(parts[1], parts[2], correct)
    IN  /\ (c \in DOMAIN db => TotalScore(db) + n <= MaxScore)
        /\ h' = [user |-> u, uid |-> c, correct |-> correct, gained |-> n,
                 before |-> ScoreOf(db, c)]
        /\ hpc' = IF n > 0 THEN "increment_score" ELSE "update_streak"
        /\ out' = Said(u, "-")
        /\ UNCHANGED <<db, user_data>>

\* a free-text message: check_answer, lines 96-114
check_answer(u, c, text) ==
    /\ hpc = "idle"
    /\ c \in ChatsOf(u)
    /\ IF ~has_pending(user_data[u]) THEN no_active_quiz(u, c)
       ELSE IF Len(PartsOf[text]) < 2 THEN format_wrong(u, c)
       ELSE tally(u, c, PartsOf[text])
    /\ UNCHANGED <<content, today, schedvars, asked, purevars, matchvars, startvars>>

\* check_answer, line 115
check_answer_increment_score ==
    /\ hpc = "increment_score"
    /\ db' = increment_score(db, h.uid, h.gained)
    /\ hpc' = "set_level"
    /\ UNCHANGED <<content, user_data, today, h, out, schedvars, asked, purevars, matchvars, startvars>>

\* check_answer, line 116
check_answer_set_level ==
    /\ hpc = "set_level"
    /\ db' = set_level_by_score(db, h.uid)
    /\ hpc' = "update_streak"
    /\ UNCHANGED <<content, user_data, today, h, out, schedvars, asked, purevars, matchvars, startvars>>

\* line 118 writing back the whole row as the handler found it at its start
check_answer_update_streak_stale ==
    /\ hpc = "update_streak"
    /\ db' = IF h.uid \in DOMAIN db
             THEN [db EXCEPT ![h.uid] = [level |-> @.level, score |-> h.before[1],
                                          streak |-> NewStreak(db, h.uid, today),
                                          last_active |-> <<today>>]]
             ELSE db
    /\ hpc' = "set_level_again"
    /\ UNCHANGED <<content, user_data, today, h, out, schedvars, asked, purevars, matchvars, startvars>>

\* check_answer, line 118
check_answer_update_streak ==
    /\ hpc = "update_streak"
    /\ db' = update_last_active_and_streak(db, h.uid, today)
    /\ hpc' = "set_level_again"
    /\ UNCHANGED <<content, user_data, today, h, out, schedvars, asked, purevars, matchvars, startvars>>

\* check_answer, line 119
check_answer_set_level_again ==
    /\ hpc = "set_level_again"
    /\ db' = set_level_by_score(db, h.uid)
    /\ hpc' = "reply"
    /\ UNCHANGED <<content, user_data, today, h, out, schedvars, asked, purevars, matchvars, startvars>>

\* check_answer, lines 120-123: the summary reads the row twice, get_user(uid)[3]
\* and get_user(uid)[2], and raises TypeError when there is none
check_answer_reply ==
    /\ hpc = "reply"
    /\ IF get_user(db, h.uid) = <<>>
       THEN /\ out' = Said(h.user, "TypeError")
            /\ UNCHANGED user_data
       ELSE /\ out' = Said(h.user, "summary")
            /\ user_data' = [user_data EXCEPT ![h.user] = clear_pending(@)]
    /\ hpc' = "idle"
    /\ h' = NoLocals
    /\ UNCHANGED <<content, db, today, schedvars, asked, purevars, matchvars, startvars>>

\* a status command that registers the chat before reading the row
status_cmd_register(u, c, cmd) ==
    /\ hpc = "idle"
    /\ c \in ChatsOf(u)
    /\ db' = add_user(db, c)
    /\ out' = Said(u, "status")
    /\ UNCHANGED <<content, user_data, today, hpc, h, schedvars, asked, purevars, matchvars, startvars>>

\* /score, /level, /streak: each reads the row and shows a part of it
status_cmd(u, c, cmd) ==
    /\ hpc = "idle"
    /\ c \in ChatsOf(u)
    /\ out' = Said(u, IF get_user(db, c) = <<>> THEN "no_record" ELSE "status")
    /\ UNCHANGED <<content, db, user_data, today, hpc, h, schedvars, asked, purevars, matchvars, startvars>>

score_cmd(u, c) == status_cmd(u, c, "score")
level_cmd(u, c) == status_cmd(u, c, "level")
streak_cmd(u, c) == status_cmd(u, c, "streak")

(***************************************************************************)
(* The scheduler thread: send_daily_to_all.                                *)
(***************************************************************************)
\* the order in which the scan of SELECT user_id FROM users yields the ids:
\* ascending, and the ids of group chats are negative
ScanOrder == <<"g", "u1">>

\* lines 151-159: the job starts and enumerates the users
send_daily_to_all ==
    /\ bpc = "idle"
    /\ bpc' = "loop"
    /\ users' = SelectSeq(ScanOrder, LAMBDA c : c \in DOMAIN db)
    /\ bres' = [c \in Chats |-> IF c \in DOMAIN db THEN "todo" ELSE "-"]
    /\ battempts' = NoAttempts
    /\ bsent' = <<>>
    /\ UNCHANGED <<content, db, user_data, today, hpc, h, out, asked, purevars, matchvars, startvars>>

\* the loop without its try: the first exception ends the job
send_daily_to_all_iteration_notry ==
    /\ bpc = "loop"
    /\ users # <<>>
    /\ LET uid == Head(users) IN
       /\ \/ /\ bres' = [bres EXCEPT ![uid] = "failed"]
             /\ bsent' = <<>>
             /\ users' = <<>>
          \/ \E payload \in format_daily_payload(content, db, uid) :
             /\ bres' = [bres EXCEPT ![uid] = "sent"]
             /\ bsent' = payload.text
             /\ users' = Tail(users)
       /\ battempts' = [battempts EXCEPT ![uid] = @ + 1]
    /\ UNCHANGED <<bpc, content, db, user_data, today, hpc, h, out, asked, purevars, matchvars, startvars>>

\* the loop storing the answers it sends as the user's pending quiz
send_daily_to_all_iteration_pending ==
    /\ bpc = "loop"
    /\ users # <<>>
    /\ LET uid == Head(users) IN
       /\ \/ /\ bres' = [bres EXCEPT ![uid] = "failed"]
             /\ bsent' = <<>>
             /\ UNCHANGED user_data
          \/ \E payload \in format_daily_payload(content, db, uid) :
             /\ bres' = [bres EXCEPT ![uid] = "sent"]
             /\ bsent' = payload.text
             /\ user_data' = [u \in Users |->
                    IF u = uid THEN store_pending(user_data[u], payload) ELSE user_data[u]]
       /\ battempts' = [battempts EXCEPT ![uid] = @ + 1]
    /\ users' = Tail(users)
    /\ UNCHANGED <<bpc, content, db, today, hpc, h, out, asked, purevars, matchvars, startvars>>

\* lines 160-169: one iteration of the loop.  The payload is built and sent;
\* format_daily_payload or send_message may raise, and the except clause logs it
send_daily_to_all_iteration ==
    /\ bpc = "loop"
    /\ users # <<>>
    /\ LET uid == Head(users) IN
       /\ \/ /\ bres' = [bres EXCEPT ![uid] = "failed"]
             /\ bsent' = <<>>
          \/ \E payload \in format_daily_payload(content, db, uid) :
             /\ bres' = [bres EXCEPT ![uid] = "sent"]
             /\ bsent' = payload.text
       /\ battempts' = [battempts EXCEPT ![uid] = @ + 1]
    /\ users' = Tail(users)
    /\ UNCHANGED <<bpc, content, db, user_data, today, hpc, h, out, asked, purevars, matchvars, startvars>>

\* the loop is over and the job returns
send_daily_to_all_return ==
    /\ bpc = "loop"
    /\ users = <<>>
    /\ bpc' = "idle"
    /\ bres' = NoRun
    /\ battempts' = NoAttempts
    /\ bsent' = <<>>
    /\ UNCHANGED <<users, content, db, user_data, today, hpc, h, out, asked, purevars, matchvars, startvars>>

Next ==
    \/ NextDay
    \/ \E u \in Users, c \in Chats : start(u, c)
    \/ \E u \in Users, c \in Chats : help_cmd(u, c)
    \/ \E u \in Users, c \in Chats : daily_cmd(u, c)
    \/ \E u \in Users, c \in Chats, text \in ReplyTexts : check_answer(u, c, text)
    \/ check_answer_increment_score
    \/ check_answer_set_level
    \/ check_answer_update_streak
    \/ check_answer_set_level_again
    \/ check_answer_reply
    \/ \E u \in Users, c \in Chats : score_cmd(u, c)
    \/ \E u \in Users, c \in Chats : level_cmd(u, c)
    \/ \E u \in Users, c \in Chats : streak_cmd(u, c)
    \/ send_daily_to_all
    \/ send_daily_to_all_iteration
    \/ send_daily_to_all_return

Spec == Init /\ [][Next]_vars

(***************************************************************************)
(* choose_for_level alone, on every collection of up to MaxItems items.    *)
(***************************************************************************)
MaxItems == 3

ItemKinds == {[q |-> "q"]} \cup {[q |-> "q", level |-> l] : l \in Levels}
ItemLists == UNION {[1..n -> ItemKinds] : n \in 0..MaxItems}

InitChoose ==
    /\ content = "full"
    /\ db = EmptyDict
    /\ user_data = [u \in Users |-> EmptyDict]
    /\ today = 0
    /\ hpc = "idle"
    /\ h = NoLocals
    /\ out = Said("-", "-")
    /\ bpc = "idle"
    /\ users = <<>>
    /\ bres = NoRun
    /\ battempts = NoAttempts
    /\ bsent = <<>>
    /\ asked = {}
    /\ items \in ItemLists
    /\ level \in Levels
    /\ chosen = NoChoice
    /\ NoComparison
    /\ Started(content)

mainvars == <<content, db, user_data, today, hpc, h, out, schedvars, asked>>

\* the call returns an item
choose_returns ==
    /\ chosen = NoChoice
    /\ \E i \in choose_for_level(items, level) : chosen' = [status |-> "item", item |-> i]
    /\ UNCHANGED <<mainvars, items, level, matchvars, startvars>>

\* the call raises: random.choice of an empty list
choose_raises ==
    /\ chosen = NoChoice
    /\ choose_for_level(items, level) = {}
    /\ chosen' = [status |-> "IndexError", item |-> NoChoice.item]
    /\ UNCHANGED <<mainvars, items, level, matchvars, startvars>>

NextChoose ==
    \/ choose_returns
    \/ choose_raises

SpecChoose == InitChoose /\ [][NextChoose]_vars

(***************************************************************************)
(* The comparison of lines 101-113 alone, on a part of a reply and a       *)
(* stored answer.                                                          *)
(***************************************************************************)
\* parts of replies as users type them
Tokens ==
    { <<"B">>, <<"b">>, <<" ", "B">>, <<"B", " ">>, <<"A">>, <<"a", "b">>,
      <<"A", "B", " ">>, <<"N", "o", "n", "e">>, <<"n", "o", "n", "e">>, <<>> }

\* answers as the content files may hold them; None for an item without one
StoredAnswers ==
    { <<"B">>, <<"b">>, <<"B", " ">>, <<" ", "b">>, <<"a", "b">>, <<"a">>, <<>>, None }

InitMatch ==
    /\ content = "full"
    /\ db = EmptyDict
    /\ user_data = [u \in Users |-> EmptyDict]
    /\ today = 0
    /\ hpc = "idle"
    /\ h = NoLocals
    /\ out = Said("-", "-")
    /\ bpc = "idle"
    /\ users = <<>>
    /\ bres = NoRun
    /\ battempts = NoAttempts
    /\ bsent = <<>>
    /\ asked = {}
    /\ items = <<>>
    /\ level = "Beginner"
    /\ chosen = NoChoice
    /\ token \in Tokens
    /\ stored \in StoredAnswers
    /\ matched = "-"
    /\ Started(content)

\* lines 101 and 110-111 (or 112-113): the part is stripped and equals the
\* stored answer, lower-cased both: gained += 1
part_scores ==
    /\ matched = "-"
    /\ Matches(Strip(token), stored)
    /\ matched' = "yes"
    /\ UNCHANGED <<mainvars, purevars, token, stored, startvars>>

\* the part does not equal the stored answer: gained stays
part_fails ==
    /\ matched = "-"
    /\ ~Matches(Strip(token), stored)
    /\ matched' = "no"
    /\ UNCHANGED <<mainvars, purevars, token, stored, startvars>>

NextMatch ==
    \/ part_scores
    \/ part_fails

SpecMatch == InitMatch /\ [][NextMatch]_vars

(***************************************************************************)
(* The start of the program alone: lines 20-27 bind the four globals from  *)
(* the four files, then main runs.                                         *)
(***************************************************************************)
\* the file loaded after f, or "main" after the last
NextFile(f) ==
    LET k == CHOOSE i \in 1..Len(FileNames) : FileNames[i] = f
    IN  IF k = Len(FileNames) THEN "main" ELSE FileNames[k + 1]

InitStartup ==
    /\ content = "full"
    /\ db = EmptyDict
    /\ user_data = [u \in Users |-> EmptyDict]
    /\ today = 0
    /\ hpc = "idle"
    /\ h = NoLocals
    /\ out = Said("-", "-")
    /\ bpc = "idle"
    /\ users = <<>>
    /\ bres = NoRun
    /\ battempts = NoAttempts
    /\ bsent = <<>>
    /\ asked = {}
    /\ items = <<>>
    /\ level = "Beginner"
    /\ chosen = NoChoice
    /\ NoComparison
    /\ files \in [DOMAIN FileGlobal -> FileStates]
    /\ loaded = EmptyDict
    /\ spc = FileNames[1]

\* load_json(fname) returns what json.load parsed, and the global is bound
load_json_returns ==
    /\ spc \in DOMAIN FileGlobal
    /\ files[spc] \in {"list", "empty"}
    /\ loaded' = [f \in DOMAIN loaded \cup {spc} |->
                    IF f = spc
                    THEN IF files[spc] = "empty" THEN <<>> ELSE FullContent[FileGlobal[spc]]
                    ELSE loaded[f]]
    /\ spc' = NextFile(spc)
    /\ UNCHANGED <<mainvars, purevars, matchvars, files>>

\* load_json(fname) raises: open raises FileNotFoundError, json.load raises
\* JSONDecodeError; nothing catches it at module level and the process ends
load_json_raises ==
    /\ spc \in DOMAIN FileGlobal
    /\ files[spc] \in {"malformed", "missing"}
    /\ spc' = "crashed"
    /\ UNCHANGED <<mainvars, purevars, matchvars, files, loaded>>

\* main: the handlers are registered, the scheduler and the polling start
main ==
    /\ spc = "main"
    /\ spc' = "running"
    /\ UNCHANGED <<mainvars, purevars, matchvars, files, loaded>>

NextStartup ==
    \/ load_json_returns
    \/ load_json_raises
    \/ main

SpecStartup == InitStartup /\ [][NextStartup]_vars

(***************************************************************************)
(* Properties.                                                             *)
(***************************************************************************)

\* C1: when a processed reply (a quiz was pending and the reply has the
\* separator) has made its database calls, the stored score of the id it
\* scores is the score found at the start plus the points gained.
C1_ReplyAddsPointsGained ==
    hpc = "reply" =>
        /\ h.uid \in DOMAIN db
        /\ h.before # <<>>
        /\ db[h.uid].score = h.before[1] + h.gained

\* C2: in every state, every row's level is the level the thresholds give
\* for the row's score.
C2_LevelIsThresholdOfScore ==
    \A c \in DOMAIN db : db[c].level = LevelForScore(db[c].score)

\* C3: a reply from a user with no pending quiz is answered with the "no
\* active quiz" message, changes no row and no user's dictionary, and ends
\* the handler.
C3_NoPendingReplyChangesNothing ==
    [][\A u \in Users :
          ~has_pending(user_data[u]) =>
              \A c \in Chats, text \in ReplyTexts :
                  check_answer(u, c, text)
                      => /\ out' = Said(u, "no_active_quiz")
                         /\ db' = db
                         /\ user_data' = user_data
                         /\ hpc' = "idle"]_vars

WitnessC3 ==
    /\ out.msg = "no_active_quiz"
    /\ db # EmptyDict

\* C4: a reply without the separator, with a quiz pending, is answered with
\* the format message, leaves every dictionary and every row as it was and
\* ends the handler; while that message is the last answer the quiz is
\* still pending.
C4_MalformedReplyKeepsPending ==
    /\ [](\A u \in Users : (out.user = u /\ out.msg = "format_wrong") => has_pending(user_data[u]))
    /\ [][\A u \in Users :
            has_pending(user_data[u]) =>
                \A c \in Chats, text \in {t \in ReplyTexts : Len(PartsOf[t]) < 2} :
                    check_answer(u, c, text)
                        => /\ out' = Said(u, "format_wrong")
                           /\ user_data' = user_data
                           /\ db' = db
                           /\ hpc' = "idle"]_vars

WitnessC4 ==
    \E u \in Users :
        /\ out = Said(u, "format_wrong")
        /\ has_pending(user_data[u])
        /\ db # EmptyDict

TaggedFor(i, l) == "level" \in DOMAIN i /\ i.level = l
Eligible(i, l) == "level" \notin DOMAIN i \/ i.level = l

\* C5 as the claim has it: when an item tagged for the level exists, the
\* item returned is tagged for the level.
C5_OnlyTaggedWhenTaggedExists ==
    (chosen.status = "item" /\ \E k \in 1..Len(items) : TaggedFor(items[k], level))
        => TaggedFor(chosen.item, level)

\* C5: the item returned is an item of the collection; when an item exists
\* that is tagged for the level or has no level tag, the item returned is
\* tagged for the level or has no level tag; the call raises only on an
\* empty collection.
C5_OnlyEligibleWhenEligibleExists ==
    /\ chosen.status = "item" =>
          /\ \E k \in 1..Len(items) : items[k] = chosen.item
          /\ (\E k \in 1..Len(items) : Eligible(items[k], level)) => Eligible(chosen.item, level)
    /\ chosen.status = "IndexError" => items = <<>>

WitnessC5 ==
    /\ chosen.status = "item"
    /\ "level" \notin DOMAIN chosen.item
    /\ \E k \in 1..Len(items) : TaggedFor(items[k], level)
    /\ \E k \in 1..Len(items) : ~Eligible(items[k], level)

\* the user ids the running job enumerated, and those still to come
Listed == {c \in Chats : bres[c] # "-"}
ToCome == {users[i] : i \in 1..Len(users)}

\* C6: while the job runs, every enumerated id is still to come, once, with
\* no iteration run for it, or has had exactly one iteration, which
\* delivered or failed; each step of the job takes the next id of the list,
\* whatever became of the ids before it; and the job can always take its
\* next step, so that it returns after one iteration per enumerated id.
C6_BroadcastAttemptsEachOnce ==
    /\ [](bpc = "loop" =>
            /\ ToCome \subseteq Listed
            /\ Cardinality(ToCome) = Len(users)
            /\ \A c \in Chats :
                 /\ battempts[c] = IF c \in Listed \ ToCome THEN 1 ELSE 0
                 /\ c \in Listed \ ToCome => bres[c] \in {"sent", "failed"}
                 /\ c \in ToCome => bres[c] = "todo"
            /\ ENABLED (send_daily_to_all_iteration \/ send_daily_to_all_return))
    /\ [][(bpc = "loop" /\ bpc' = "loop" /\ schedvars' # schedvars)
            => (users # <<>> /\ users' = Tail(users))]_vars

WitnessC6 ==
    /\ bpc = "loop"
    /\ users = <<>>
    /\ \E c, d \in Chats : bres[c] = "failed" /\ bres[d] = "sent"

\* C7: once a processed reply has been answered, with the summary or with
\* the exception the summary raised, the user has no pending quiz.
C7_ProcessedReplyClearsPending ==
    \A u \in Users :
        (out.user = u /\ out.msg \in {"summary", "TypeError"}) => ~has_pending(user_data[u])

\* the dictionary that holds the answers and ids of the content a quiz shows
ItemShown(coll, q) == CHOOSE i \in {coll[k] : k \in 1..Len(coll)} : i.q = q
PendingOfQuiz(text) ==
    LET g == ItemShown(Loaded[content].grammar, text[1])
        p == ItemShown(Loaded[content].puzzles, text[3])
    IN  [pending_answers |-> [grammar |-> Get(g, "answer"), puzzle |-> Get(p, "answer")],
         pending_ids |-> [grammar_id |-> Get(g, "id"), puzzle_id |-> Get(p, "id")]]

\* C8: after a /daily has sent a quiz, the user's dictionary holds the
\* answers and ids of that quiz and nothing of an earlier one; a pending
\* quiz is replaced by another only by a /daily that sends a quiz; and a
\* reply is scored against the answers pending when it came.
C8_DailyOverwritesPending ==
    /\ [](\A u \in Users :
            (out.user = u /\ out.msg = "quiz") => user_data[u] = PendingOfQuiz(out.quiz))
    /\ [](hpc # "idle" =>
            /\ has_pending(user_data[h.user])
            /\ h.correct = user_data[h.user]["pending_answers"])
    /\ [][\A u \in Users :
            (has_pending(user_data[u]) /\ has_pending(user_data'[u]) /\ user_data'[u] # user_data[u])
                => (out'.user = u /\ out'.msg = "quiz")]_vars

WitnessC8 ==
    \E u \in Users :
        /\ out.user = u
        /\ out.msg = "quiz"
        /\ out.over # <<>>
        /\ out.over[1] # user_data[u]["pending_ids"]

\* C9: no step of the scheduled job changes a row or a user's dictionary; a
\* user who has never sent /daily has no pending quiz, and every reply of
\* such a user is answered with the "no active quiz" message and changes no
\* row.
C9_BroadcastLeavesPendingAndStore ==
    /\ [](\A u \in Users : u \notin asked => ~has_pending(user_data[u]))
    /\ [][(send_daily_to_all \/ send_daily_to_all_iteration \/ send_daily_to_all_return)
            => UNCHANGED <<db, user_data>>]_vars
    /\ [][\A u \in Users \ asked :
            \A c \in Chats, text \in ReplyTexts :
                check_answer(u, c, text)
                    => (out' = Said(u, "no_active_quiz") /\ db' = db /\ hpc' = "idle")]_vars

WitnessC9 ==
    \E u \in Users :
        /\ u \notin asked
        /\ bres[u] = "sent"
        /\ out = Said(u, "no_active_quiz")

\* C10: no step lowers the score of a row or removes a row.
C10_ScoreNeverDecreases ==
    [][\A c \in DOMAIN db : c \in DOMAIN db' /\ db'[c].score >= db[c].score]_vars

WitnessC10 ==
    /\ \A c \in Chats : c \in DOMAIN db /\ db[c].score > 0
    /\ out.msg \in {"welcome", "quiz"}

\* C11: the job enumerates only ids that have a row, so a reply whose steps
\* the job's steps for the same id interleave with scores an id that has a
\* row; when such a reply has made its four database calls, whatever the
\* job did in between, the row's score is the score found at the start plus
\* the points gained and the row's level is the level the thresholds give
\* for that score.
C11_NoLostUpdate ==
    /\ Listed \subseteq DOMAIN db
    /\ (hpc = "reply" /\ h.uid \in DOMAIN db) =>
          /\ h.before # <<>>
          /\ db[h.uid].score = h.before[1] + h.gained
          /\ db[h.uid].level = LevelForScore(db[h.uid].score)

WitnessC11 ==
    /\ hpc = "reply"
    /\ h.gained = 2
    /\ bpc = "loop"
    /\ h.uid \in Listed \ ToCome
    /\ bres[h.uid] = "sent"

\* C12: the start of the program never ends in a crash; a file that is no
\* JSON or cannot be read leaves its global bound to the empty list; and
\* the running state is reached with the four globals bound.
C12_BadFileDegradesToEmpty ==
    /\ spc # "crashed"
    /\ \A f \in DOMAIN loaded : files[f] \in {"malformed", "missing"} => loaded[f] = <<>>
    /\ spc = "running" => DOMAIN loaded = DOMAIN FileGlobal

\* C13: a part scores if and only if the part, trimmed and lower-cased,
\* equals the stored answer, trimmed and lower-cased.
C13_MatchIsTrimmedEquality ==
    (matched # "-" /\ stored # None) =>
        (matched = "yes" <=> Lower(Strip(token)) = Lower(Strip(stored)))

\* C14: no step of the scheduled job, no status command and no /help
\* changes a row; a streak or a last-active day changes only at line 118 of
\* a processed reply and a level only at lines 116 and 119; line 118 leaves
\* the scored row with today as last-active day and with the streak one
\* higher if last-active was yesterday, else reset to 1, also for a reply
\* that earned nothing; every processed reply that reaches its summary has
\* updated the row of the id it scores; and no streak is negative.
C14_StreakUpdatedOncePerReply ==
    /\ [][(send_daily_to_all \/ send_daily_to_all_iteration \/ send_daily_to_all_return) => db' = db]_vars
    /\ [][\A c \in DOMAIN db :
            /\ c \in DOMAIN db'
            /\ (db'[c].streak # db[c].streak \/ db'[c].last_active # db[c].last_active)
                  => (hpc = "update_streak" /\ h.uid = c)
            /\ db'[c].level # db[c].level
                  => (hpc \in {"set_level", "set_level_again"} /\ h.uid = c)]_vars
    /\ [](\A c \in DOMAIN db : db[c].streak >= 0)
    /\ [][(hpc = "update_streak" /\ hpc' # hpc) =>
            /\ h.uid \in DOMAIN db
            /\ db'[h.uid].last_active = <<today>>
            /\ db'[h.uid].streak = IF db[h.uid].last_active = <<today - 1>>
                                   THEN db[h.uid].streak + 1 ELSE 1]_vars

\* C15: while a reply is being scored, the id it scores has a row.
C15_ScoredIdHasRecord ==
    hpc # "idle" => h.uid \in DOMAIN db

\* C16: against an item without a stored answer no part scores.
C16_NoAnswerNoPoint ==
    (matched # "-" /\ stored = None) => matched = "no"

\* C17: /score, /level, /streak and /help leave every row, every user's
\* dictionary and the dispatcher where they were; a status command in a chat
\* without a row answers "no record found" and one in a chat with a row
\* shows the row.
C17_StatusAndHelpChangeNothing ==
    [][\A u \in Users :
          (hpc = "idle" /\ out'.user = u /\ out'.msg \in {"status", "no_record", "commands"}) =>
              \A c \in Chats :
                  /\ (score_cmd(u, c) \/ level_cmd(u, c) \/ streak_cmd(u, c))
                        => /\ db' = db /\ user_data' = user_data /\ hpc' = hpc
                           /\ out' = Said(u, IF c \in DOMAIN db THEN "status" ELSE "no_record")
                  /\ help_cmd(u, c)
                        => /\ db' = db /\ user_data' = user_data /\ hpc' = hpc
                           /\ out' = Said(u, "commands")]_vars

WitnessC17 ==
    \E u \in Users :
        /\ out = Said(u, "no_record")
        /\ has_pending(user_data[u])
        /\ db # EmptyDict
        /\ \E c \in ChatsOf(u) : c \notin DOMAIN db

\* the content a quiz for a level may show
QuizTexts(lvl) == {p.text : p \in PayloadsOf[content][lvl]}

\* C18: after /daily in a chat the chat has a row, and the quiz /daily
\* sends is one the payload function gives for the level in that row (it
\* raises only when the function has nothing to give); the quiz an
\* iteration of the scheduled job sends is one the payload function gives
\* for the level in the row of the id it is sent to, Beginner without a row.
C18_SamePayloadFromStoredLevel ==
    /\ [][\A u \in Users :
            (hpc = "idle" /\ out'.user = u /\ out'.msg \in {"quiz", "IndexError"}) =>
                \A c \in Chats :
                    daily_cmd(u, c) =>
                        /\ c \in DOMAIN db'
                        /\ out'.msg = "quiz" => out'.quiz \in QuizTexts(db'[c].level)
                        /\ out'.msg # "quiz" => QuizTexts(db'[c].level) = {}]_vars
    /\ [][(send_daily_to_all_iteration /\ bsent' # <<>>) =>
            bsent' \in QuizTexts(IF Head(users) \in DOMAIN db
                                 THEN db[Head(users)].level ELSE "Beginner")]_vars

WitnessC18 ==
    /\ out.msg = "quiz"
    /\ out.quiz[1] = "g2"
    /\ bsent # <<>>
    /\ bsent[1] = "g2"

====
